---- MODULE Spec2Model ----
(***************************************************************************)
(* Calibration engine of car-audio-eq-pro (class Calibration of            *)
(* js/calibration.js, the variant with the noise floor, together with the  *)
(* parts of AudioProcessor and CarAudioEQApp it touches).                   *)
(*                                                                         *)
(* Units.  Every decibel value is an integer number of milli-dB            *)
(* (-80 dB = -80000), every frequency an integer number of tenths of a     *)
(* hertz (31.5 Hz = 315).  Quotients that the code takes in floating       *)
(* point are taken with \div, so a mean is exact to 0.001 dB.              *)
(*                                                                         *)
(* Spectra.  A spectrum of frequencyBinCount bins is represented by the    *)
(* value it has on each of three frequency regions (below 100 Hz, from     *)
(* 100 Hz to 10 kHz, above 10 kHz); all bins of a region hold the same     *)
(* value.  A per-bin loop of the code is a per-region computation here,    *)
(* and a read of bin b reads the region that b lies in.                    *)
(***************************************************************************)
EXTENDS Integers, Sequences, FiniteSets, TLC

(***************************************************************************)
(* Bounds of the model.                                                    *)
(***************************************************************************)
\* snapshots one capture loop may retain when the signal varies
MaxRetained == 2
\* calibrate calls that get past the isCalibrating guard
MaxRuns == 2
\* longest measurement duration, in clock ticks
MaxDuration == 1

(***************************************************************************)
(* Program constants.                                                      *)
(***************************************************************************)
noiseFloor == -80000
referenceLevel == -20000
fftSize == 8192
discardCountInit == 10
clampLimit == 10000

frequencyBinCount == fftSize \div 2

\* AudioProcessor.frequencies, in tenths of a hertz
frequencies ==
    << 200, 250, 315, 400, 500, 630, 800, 1000, 1250, 1600,
       2000, 2500, 3150, 4000, 5000, 6300, 8000, 10000, 12500, 16000,
       20000, 25000, 31500, 40000, 50000, 63000, 80000, 100000, 125000,
       160000, 200000 >>

Bands == 1..Len(frequencies)

(***************************************************************************)
(* Arithmetic helpers.                                                     *)
(***************************************************************************)
Min2(a, b) == IF a <= b THEN a ELSE b
Max2(a, b) == IF a >= b THEN a ELSE b

RECURSIVE SumTo(_, _)
SumTo(s, n) == IF n = 0 THEN 0 ELSE s[n] + SumTo(s, n - 1)

SeqSum(s) == SumTo(s, Len(s))

RECURSIVE MaxTo(_, _)
MaxTo(s, n) == IF n = 1 THEN s[1] ELSE Max2(s[n], MaxTo(s, n - 1))

\* Math.max(...s) of a non-empty sequence
SeqMax(s) == MaxTo(s, Len(s))

RECURSIVE Pow10(_)
Pow10(n) == IF n = 0 THEN 1 ELSE 10 * Pow10(n - 1)

RECURSIVE IntLog10(_, _)
\* floor(log10(num / den)) for num >= den > 0
IntLog10(num, den) ==
    IF num \div 10 < den THEN 0 ELSE 1 + IntLog10(num \div 10, den)

RECURSIVE LogBits(_, _, _)
\* the fractional bits of log10(m / 4096), 4096 <= m < 40960, by repeated
\* squaring: bit i is set when the squared mantissa passes 10
LogBits(m, i, acc) ==
    IF i = 0 THEN acc
    ELSE LET sq == (m * m) \div 4096
         IN  IF sq >= 40960
             THEN LogBits(sq \div 10, i - 1, 2 * acc + 1)
             ELSE LogBits(sq, i - 1, 2 * acc)

\* 1000 * log10(num / den) for num >= den > 0: exact when num / den is a
\* power of ten, and within 2 of the true value otherwise
Log10Milli(num, den) ==
    LET k    == IntLog10(num, den)
        cut  == IF k > 4 THEN Pow10(k - 4) ELSE 1
        d    == (den * Pow10(k)) \div cut
        q    == num \div (den * Pow10(k))
        r    == (num % (den * Pow10(k))) \div cut
        mant == q * 4096 + (r * 4096) \div d
    IN  1000 * k + (LogBits(mant, 12, 0) * 1000) \div 4096

\* (10^(dB/20))^2 in units of the power at the noise floor; the levels of
\* the model are whole multiples of 10 dB at or above the noise floor
DbToPower(db) == Pow10((db - noiseFloor) \div 10000)

\* 20 * log10(sqrt(sum / count)), sum in units of the power at the noise floor
PowerToDb(sum, count) == noiseFloor + 10 * Log10Milli(sum, count)

(***************************************************************************)
(* Spectra and the band grid.                                              *)
(***************************************************************************)
Regions == 1..3

\* the region that bin `bin` of a spectrum lies in; the bin's frequency is
\* bin * binWidth with binWidth = (sampleRate / 2) / frequencyBinCount
RegionOfBin(bin, rate) ==
    IF bin * rate < 100 * fftSize THEN 1
    ELSE IF bin * rate <= 10000 * fftSize THEN 2
    ELSE 3

\* Math.max(...dataArray)
PeakLevel(dataArray) == SeqMax(dataArray)

(***************************************************************************)
(* Target curves (Calibration constructor).                                *)
(***************************************************************************)
CurveNames == {"flat", "harman", "b&k", "custom"}

generateHarmanCurve ==
    [i \in Bands |->
        LET freq == frequencies[i]
        IN  IF freq < 1000 THEN 6000
            ELSE IF freq < 2000 THEN 3000
            ELSE IF freq < 10000 THEN 0
            ELSE IF freq < 100000 THEN -2000
            ELSE -4000]

generateBKCurve ==
    [i \in Bands |->
        LET logFreq == Log10Milli(frequencies[i], 10)
        IN  10000 - ((logFreq - 1000) * 333) \div 100]

\* this.targetCurves[name] for a name the object defines
targetCurves(name) ==
    CASE name = "flat"   -> [i \in Bands |-> 0]
      [] name = "harman" -> generateHarmanCurve
      [] name = "b&k"    -> generateBKCurve
      [] name = "custom" -> [i \in Bands |-> 0]

(***************************************************************************)
(* The numeric pipeline of calculateCorrections.                           *)
(***************************************************************************)
\* variant: the arithmetic mean of the decibel values
averageMeasurementsDbMean(data) ==
    [r \in Regions |->
        LET valid == SelectSeq(data, LAMBDA m : m[r] > noiseFloor)
            sum   == SeqSum([k \in 1..Len(valid) |-> valid[k][r]])
            count == Len(valid)
        IN  IF count > 0 THEN sum \div count ELSE noiseFloor]

\* variant: the power sum divided by the number of snapshots
averageMeasurementsPerSnapshot(data) ==
    [r \in Regions |->
        LET valid == SelectSeq(data, LAMBDA m : m[r] > noiseFloor)
            sum   == SeqSum([k \in 1..Len(valid) |-> DbToPower(valid[k][r])])
            count == Len(valid)
        IN  IF count > 0 THEN PowerToDb(sum, Len(data)) ELSE noiseFloor]

\* averageMeasurements: per bin, the power mean of the values above the
\* noise floor, or the noise floor when there is none
averageMeasurements(data) ==
    [r \in Regions |->
        LET valid == SelectSeq(data, LAMBDA m : m[r] > noiseFloor)
            sum   == SeqSum([k \in 1..Len(valid) |-> DbToPower(valid[k][r])])
            count == Len(valid)
        IN  IF count > 0 THEN PowerToDb(sum, count) ELSE noiseFloor]

\* context.sampleRate; at 32 kHz the two highest bands lie at or beyond
\* the last bin
SampleRates == {32000, 48000}

\* variant: the window is floor(centerBin)..ceil(centerBin)
WindowBinsNarrow(freq, rate) ==
    LET num      == freq * fftSize
        den      == 10 * rate
        startBin == num \div den
        endBin   == (num \div den) + (IF num % den = 0 THEN 0 ELSE 1)
    IN  { bin \in startBin..endBin : bin < frequencyBinCount /\ bin >= 0 }

\* the bins of the spectrum that extractFrequencyResponse visits for the
\* band at freq: startBin..endBin, cut off at the end of the spectrum
WindowBins(freq, rate) ==
    LET num      == freq * fftSize
        den      == 10 * rate
        startBin == (num \div den) - 1
        endBin   == (num \div den) + (IF num % den = 0 THEN 0 ELSE 1) + 1
    IN  { bin \in startBin..endBin : bin < frequencyBinCount /\ bin >= 0 }

\* per sample rate and band: the regions of the bins visited, in bin order
BandWindows ==
    [rate \in SampleRates |->
        [i \in Bands |->
            LET bins == WindowBins(frequencies[i], rate)
                lo   == CHOOSE b \in bins : \A c \in bins : b <= c
            IN  IF bins = {} THEN <<>>
                ELSE [k \in 1..Cardinality(bins) |->
                         RegionOfBin(lo + k - 1, rate)]]]

extractFrequencyResponse(fftData, rate) ==
    [i \in Bands |->
        LET window == BandWindows[rate][i]
            valid  == SelectSeq(window, LAMBDA r : fftData[r] > noiseFloor)
            sum    == SeqSum([k \in 1..Len(valid) |-> fftData[valid[k]]])
            count  == Len(valid)
        IN  IF count > 0 THEN sum \div count ELSE noiseFloor] \o <<>>

SmoothingTypes == {"1/3", "1/6", "1/12"}

\* variant: an unknown type falls back to a whole octave
HalfWindowOctaveDefault(smoothingType) ==
    CASE smoothingType = "1/3"  -> 1122
      [] smoothingType = "1/6"  -> 1059
      [] smoothingType = "1/12" -> 1029
      [] OTHER                  -> 1414

\* variant: 1000 * 2^octaveFraction, the window a whole fraction each way
HalfWindowWholeFraction(smoothingType) ==
    CASE smoothingType = "1/6"  -> 1122
      [] smoothingType = "1/12" -> 1059
      [] OTHER                  -> 1260

\* 1000 * 2^(octaveFraction / 2); an unknown type falls back to 1/3
HalfWindow(smoothingType) ==
    CASE smoothingType = "1/6"  -> 1059
      [] smoothingType = "1/12" -> 1029
      [] OTHER                  -> 1122

\* variant: the upper bound is centerFreq * 2 * 2^(octaveFraction / 2)
BandsInWindowOctaveUp(i, smoothingType) ==
    LET centerFreq == frequencies[i]
        w          == HalfWindow(smoothingType)
    IN  SelectSeq([j \in Bands |-> j],
                  LAMBDA j : /\ frequencies[j] * w >= centerFreq * 1000
                             /\ frequencies[j] * 1000 <= 2 * centerFreq * w)

\* the bands j with lowerBound <= frequencies[j] <= upperBound for band i
BandsInWindow(i, smoothingType) ==
    LET centerFreq == frequencies[i]
        w          == HalfWindow(smoothingType)
    IN  SelectSeq([j \in Bands |-> j],
                  LAMBDA j : /\ frequencies[j] * w >= centerFreq * 1000
                             /\ frequencies[j] * 1000 <= centerFreq * w)

RequestedSmoothings == SmoothingTypes \cup {"off"}

\* the values applySmoothing is called with: the requested ones, undefined
\* and other strings
SmoothingArgs == RequestedSmoothings \cup {"undefined", "1/2", ""}

\* per smoothing type and band: the bands inside the band's window
SmoothingWindows ==
    [t \in SmoothingArgs |-> [i \in Bands |-> BandsInWindow(i, t)]]

RECURSIVE SmoothBands(_, _, _, _)
\* the loop of applySmoothing from band i on: `data` is the argument,
\* `smoothed` the array the loop writes; yields both as the loop leaves them
SmoothBands(data, smoothed, smoothingType, i) ==
    IF i > Len(smoothed) THEN [argument |-> data, smoothed |-> smoothed]
    ELSE LET window == SmoothingWindows[smoothingType][i]
             valid  == SelectSeq(window, LAMBDA j : data[j] > noiseFloor)
             sum    == SeqSum([k \in 1..Len(valid) |-> data[valid[k]]])
             count  == Len(valid)
         IN  SmoothBands(data,
                         IF count > 0
                         THEN [smoothed EXCEPT ![i] = sum \div count]
                         ELSE smoothed,
                         smoothingType, i + 1)

\* smoothed = [...data], then the loop
applySmoothing(data, smoothingType) ==
    SmoothBands(data, data, smoothingType, 1).smoothed

\* variant: quantises to steps of 0.3 dB
RoundHalfStep03(c) == ((10 * c + 1500) \div 3000) * 300

\* Math.round(correction * 2) / 2
RoundHalf(c) == ((2 * c + 500) \div 1000) * 500

\* Math.round((sum3 / 3) * 2) / 2, the quotient taken exactly
RoundHalf3(sum3) == ((2 * sum3 + 1500) \div 3000) * 500

\* variant: the limits of the earlier calibration class, -12 and +12
ClampTwelve(c) == Max2(-12000, Min2(12000, c))

\* Math.max(-10, Math.min(10, correction))
Clamp(c) == Max2(-clampLimit, Min2(clampLimit, c))

\* variant: damps by 0.1
DampTenth(c) == c \div 10

\* correction *= 0.7
Damp(c) == (c * 7) \div 10

\* variant: the loop stops one band early
smoothCorrectionsShort(corrections) ==
    [i \in 1..(Len(corrections) - 1) |->
        IF i = 1 THEN corrections[i]
        ELSE LET sum3 == corrections[i - 1] + corrections[i] + corrections[i + 1]
             IN  RoundHalf3(sum3)] \o <<>>

RECURSIVE SmoothPassInPlace(_, _, _)
\* variant: smoothed is the argument itself, not a copy of it
SmoothPassInPlace(corrections, smoothed, i) ==
    IF i >= Len(smoothed) THEN [argument |-> smoothed, smoothed |-> smoothed]
    ELSE LET sum3 == smoothed[i - 1] + smoothed[i] + smoothed[i + 1]
             next == [smoothed EXCEPT ![i] = RoundHalf3(sum3)]
         IN  SmoothPassInPlace(next, next, i + 1)

RECURSIVE SmoothPassUsesSmoothed(_, _, _)
\* variant: the lower neighbour is read from smoothed
SmoothPassUsesSmoothed(corrections, smoothed, i) ==
    IF i >= Len(smoothed) THEN [argument |-> corrections, smoothed |-> smoothed]
    ELSE LET sum3 == smoothed[i - 1] + corrections[i] + corrections[i + 1]
         IN  SmoothPassUsesSmoothed(corrections,
                                    [smoothed EXCEPT ![i] = RoundHalf3(sum3)],
                                    i + 1)

RECURSIVE SmoothPass(_, _, _)
\* the loop of smoothCorrections from entry i on: `corrections` is the
\* argument, `smoothed` the array the loop writes
SmoothPass(corrections, smoothed, i) ==
    IF i >= Len(smoothed) THEN [argument |-> corrections, smoothed |-> smoothed]
    ELSE LET sum3 == corrections[i - 1] + corrections[i] + corrections[i + 1]
         IN  SmoothPass(corrections,
                        [smoothed EXCEPT ![i] = RoundHalf3(sum3)],
                        i + 1)

\* smoothed = [...corrections], then the loop over the interior entries
smoothCorrections(corrections) ==
    SmoothPass(corrections, corrections, 2).smoothed

\* variant: the peak is moved to 0 dB
NormalizeToZero(smoothedResponse) ==
    LET maxResponse == SeqMax(smoothedResponse)
    IN  [i \in 1..Len(smoothedResponse) |->
            smoothedResponse[i] - maxResponse] \o <<>>

\* smoothedResponse.map(v => v - maxResponse + this.referenceLevel)
Normalize(smoothedResponse) ==
    LET maxResponse == SeqMax(smoothedResponse)
    IN  [i \in 1..Len(smoothedResponse) |->
            smoothedResponse[i] - maxResponse + referenceLevel] \o <<>>

(***************************************************************************)
(* The frames the microphone analyser delivers, and the response           *)
(* calculateCorrections derives from a session of them.                    *)
(***************************************************************************)
\* a -20 dB plateau from 100 Hz to 10 kHz over -60 dB
PlateauFrame == <<-60000, -20000, -60000>>

\* the frames getFloatFrequencyData may write while music plays: silence,
\* a peak exactly on the noise floor, and two audible spectra
MusicFrames ==
    { <<-100000, -100000, -100000>>,
      <<-80000, -100000, -80000>>,
      <<-20000, -20000, -20000>>,
      <<-80000, -60000, -20000>> }

\* "music": any frame at any time; "plateau": the steady plateau signal
Signals == {"music", "plateau"}

FramesOf(sig) == IF sig = "plateau" THEN {PlateauFrame} ELSE MusicFrames

RECURSIVE SeqsUpTo(_, _)
\* the non-empty sequences over S of length at most n
SeqsUpTo(S, n) ==
    IF n = 0 THEN {}
    ELSE LET shorter == SeqsUpTo(S, n - 1)
         IN  { <<x>> : x \in S } \cup shorter
                 \cup { Append(q, x) : q \in shorter, x \in S }

\* the non-empty sessions a capture loop can leave in measurementData
Sessions ==
    SeqsUpTo(MusicFrames, MaxRetained)
        \cup { [k \in 1..n |-> PlateauFrame] : n \in 1..20 }

\* lines 493-509 of calculateCorrections: the averaged spectrum, the band
\* response, its smoothing and its normalization
ResponseOf(data, smoothing, rate) ==
    Normalize(applySmoothing(
        extractFrequencyResponse(averageMeasurements(data) \o <<>>, rate),
        smoothing))

\* ResponseOf on the sessions, computed once
Responses ==
    [rate \in SampleRates |->
        [smoothing \in RequestedSmoothings |->
            [data \in Sessions |-> ResponseOf(data, smoothing, rate)]]]

\* the response the corrections are computed from
NormalizedResponse(data, smoothing, rate) ==
    IF data \in Sessions /\ smoothing \in RequestedSmoothings
    THEN Responses[rate][smoothing][data]
    ELSE ResponseOf(data, smoothing, rate)

Failure(msg) == [ok |-> FALSE, error |-> msg, corrections |-> <<>>]

\* variant: without the guard of lines 488-490, so that an empty session
\* reaches averageMeasurements, whose own guard throws
calculateCorrectionsUnguarded(data, targetCurveName, smoothing, rate) ==
    IF Len(data) = 0 THEN Failure("No measurement data")
    ELSE IF targetCurveName \notin CurveNames THEN Failure("TypeError")
    ELSE LET targetCurve        == targetCurves(targetCurveName)
             normalizedResponse == NormalizedResponse(data, smoothing, rate)
             corrections ==
                 [i \in Bands |->
                     RoundHalf(Clamp(Damp(targetCurve[i] - normalizedResponse[i])))]
                 \o <<>>
         IN  [ok |-> TRUE, error |-> "", corrections |-> smoothCorrections(corrections)]

\* variant: the response is taken relative to the reference level, as the
\* earlier calibration class does
calculateCorrectionsRelative(data, targetCurveName, smoothing, rate) ==
    IF Len(data) = 0 THEN Failure("No valid measurement data collected")
    ELSE IF targetCurveName \notin CurveNames THEN Failure("TypeError")
    ELSE LET targetCurve        == targetCurves(targetCurveName)
             normalizedResponse == NormalizedResponse(data, smoothing, rate)
             corrections ==
                 [i \in Bands |->
                     RoundHalf(Clamp(Damp(
                         targetCurve[i] - (normalizedResponse[i] - referenceLevel))))]
                 \o <<>>
         IN  [ok |-> TRUE, error |-> "", corrections |-> smoothCorrections(corrections)]

calculateCorrections(data, targetCurveName, smoothing, rate) ==
    IF Len(data) = 0 THEN Failure("No valid measurement data collected")
    ELSE IF targetCurveName \notin CurveNames
    THEN \* targetCurve is undefined and targetCurve[0] throws
         Failure("TypeError")
    ELSE LET targetCurve        == targetCurves(targetCurveName)
             normalizedResponse == NormalizedResponse(data, smoothing, rate)
             corrections ==
                 [i \in Bands |->
                     RoundHalf(Clamp(Damp(targetCurve[i] - normalizedResponse[i])))]
                 \o <<>>
         IN  [ok |-> TRUE, error |-> "", corrections |-> smoothCorrections(corrections)]

(***************************************************************************)
(* The environment: how long a loop runs, and what a caller asks for.      *)
(***************************************************************************)
\* frames one capture loop may take: the warm-up frames and the retained ones
FrameCap(sig) ==
    discardCountInit + (IF sig = "plateau" THEN 20 ELSE MaxRetained)

Durations == 0..MaxDuration

RequestedCurves == CurveNames \cup {"unknown"}

(***************************************************************************)
(* State.                                                                  *)
(***************************************************************************)
VARIABLES
    sampleRate,       \* audioProcessor.context.sampleRate
    signal,           \* what the analyser hears
    isCalibrating,    \* Calibration.isCalibrating
    measurementData,  \* Calibration.measurementData
    pc,               \* where the accepted calibrate call is suspended
    call,             \* the options of the accepted calibrate call
    runs,             \* calibrate calls accepted so far; the current run's id
    rejection,        \* error thrown by the isCalibrating guard in the
                      \* latest step, "" when that step was no rejected call
    liveStreams,      \* runs whose microphone tracks have not been stopped
    loop,             \* the capture loop of collectMeasurements
    outcome,          \* how the latest accepted calibrate call settled
    gains,            \* filters[i].gain of the AudioProcessor
    sliders,          \* value of the EQ sliders
    calibrateBtnDisabled, \* elements.calibrateBtn.disabled
    validSeen,        \* frames since the last clear that came after the
                      \* warm-up frames and peaked above the noise floor
    capturedIn,       \* per entry of measurementData, the run whose capture
                      \* loop appended it
    probe             \* one call of a function of the pipeline on its own:
                      \* the function, its input and, once made, its result

vars == << sampleRate, signal, isCalibrating, measurementData, pc, call, runs,
           rejection, liveStreams, loop, outcome, gains, sliders,
           calibrateBtnDisabled, validSeen, capturedIn, probe >>

\* no capture loop is scheduled
NoLoop == [state |-> "none", discardCount |-> 0, frames |-> 0, timeLeft |-> 0]

NoCall == [caller |-> "none", useTestSignal |-> FALSE]

\* status: "none", "pending", "resolved" or "rejected"; stage: the step of
\* calibrate that settled the call; data: measurementData when
\* calculateCorrections was called; warmedUp: whether the capture loop had
\* then run through its warm-up frames
NoOutcome == [status |-> "none", stage |-> "", error |-> "",
              corrections |-> <<>>, targetCurve |-> "", smoothing |-> "",
              data |-> <<>>, warmedUp |-> FALSE, caller |-> "none",
              useTestSignal |-> FALSE]

Pending(caller) == [NoOutcome EXCEPT !.status = "pending", !.caller = caller]

FlatGains == [i \in Bands |-> 0]

\* no function of the pipeline is called on its own
NoProbe == [op |-> "none", input |-> <<>>, arg |-> <<>>, done |-> FALSE,
            out |-> <<>>, after |-> <<>>]

\* the objects as their constructors leave them
Constructed ==
    /\ isCalibrating = FALSE
    /\ measurementData = <<>>
    /\ pc = "idle"
    /\ call = NoCall
    /\ runs = 0
    /\ rejection = ""
    /\ liveStreams = {}
    /\ loop = NoLoop
    /\ outcome = NoOutcome
    /\ gains = FlatGains
    /\ sliders = FlatGains
    /\ calibrateBtnDisabled = FALSE
    /\ validSeen = 0
    /\ capturedIn = <<>>

Init ==
    /\ sampleRate \in SampleRates
    /\ signal \in Signals
    \* the plateau scenario is run at 48 kHz
    /\ signal = "plateau" => sampleRate = 48000
    /\ Constructed
    /\ probe = NoProbe

(***************************************************************************)
(* collectMeasurements: one invocation of measure().                       *)
(***************************************************************************)
\* variant: measure() asks for another animation frame each time
MeasureLoopNeverResolves(l) ==
    [l EXCEPT !.frames = l.frames + 1,
              !.discardCount = IF l.discardCount > 0 THEN l.discardCount - 1
                               ELSE 0,
              !.state = "live"]

\* the loop after measure() has run: "live" when it has asked for another
\* animation frame, "done" when it has resolved the promise.  timeLeft is
\* duration - elapsed, in clock ticks, and 0 once elapsed >= duration.
MeasureLoop(l) ==
    [l EXCEPT !.frames = l.frames + 1,
              !.discardCount = IF l.discardCount > 0 THEN l.discardCount - 1
                               ELSE 0,
              !.state = IF l.timeLeft > 0 THEN "live" ELSE "done"]

\* variant: a peak exactly on the noise floor counts as signal
RetainsAtFloor(l, f) == l.discardCount = 0 /\ PeakLevel(f) >= noiseFloor

\* whether measure() on frame f pushes a copy of it
Retains(l, f) == l.discardCount = 0 /\ PeakLevel(f) > noiseFloor

\* variant: measure() pushes dataArray itself, so that every retained entry
\* is the capture buffer and shows the frame read last
MeasureDataAliased(l, f, data) ==
    IF Retains(l, f) THEN [k \in 1..(Len(data) + 1) |-> f] \o <<>>
    ELSE [k \in 1..Len(data) |-> f] \o <<>>

\* measurementData after measure() has run on frame f: getFloatFrequencyData
\* has written f to dataArray, and a copy of dataArray is pushed
MeasureData(l, f, data) == IF Retains(l, f) THEN Append(data, f) ELSE data

\* variant: one warm-up frame fewer
NewLoopShortWarmup(duration) ==
    [state |-> "live", discardCount |-> discardCountInit - 1, frames |-> 0,
     timeLeft |-> duration]

\* the loop as collectMeasurements creates it
NewLoop(duration) ==
    [state |-> "live", discardCount |-> discardCountInit, frames |-> 0,
     timeLeft |-> duration]

(***************************************************************************)
(* CarAudioEQApp.updateEQSliders and the ways calibrate settles.           *)
(***************************************************************************)
updateEQSliders(old, new) ==
    [i \in 1..Len(old) |-> IF i <= Len(new) THEN new[i] ELSE old[i]]

\* variant: a failed calibration resets the equaliser to flat
GainsAfterResetOnFailure(caller, res, old) ==
    IF caller # "app" THEN old
    ELSE IF res.ok THEN updateEQSliders(old, res.corrections)
    ELSE [i \in 1..Len(old) |-> 0]

\* the gains once startCalibration has handled the settled calibrate call
GainsAfter(caller, res, old) ==
    IF caller = "app" /\ res.ok THEN updateEQSliders(old, res.corrections)
    ELSE old

\* variant: calibrate has no finally block
SettleKeepsFlag ==
    /\ isCalibrating' = isCalibrating
    /\ calibrateBtnDisabled' =
           IF call.caller = "app" THEN FALSE ELSE calibrateBtnDisabled
    /\ pc' = "idle"
    /\ call' = NoCall
    /\ loop' = IF loop.state = "live" THEN loop ELSE NoLoop

\* calibrate's finally block, and startCalibration's.  Neither touches the
\* capture loop: a loop that has resolved has no callback scheduled any
\* more, a live one stays scheduled.
Settle ==
    /\ isCalibrating' = FALSE
    /\ calibrateBtnDisabled' =
           IF call.caller = "app" THEN FALSE ELSE calibrateBtnDisabled
    /\ pc' = "idle"
    /\ call' = NoCall
    /\ loop' = IF loop.state = "live" THEN loop ELSE NoLoop

\* calibrate rejecting from inside its try block before the line that stops
\* the microphone
Fail(stage, msg) ==
    /\ outcome' = [NoOutcome EXCEPT !.status = "rejected", !.stage = stage,
                                    !.error = msg, !.caller = call.caller,
                                    !.useTestSignal = call.useTestSignal]
    /\ Settle
    /\ UNCHANGED << gains, sliders, liveStreams >>

(***************************************************************************)
(* Actions.                                                                *)
(***************************************************************************)
\* calibrate(options) passes the isCalibrating guard.  caller "app" is
\* startCalibration (the button is enabled, music is playing, no
\* useTestSignal option), caller "api" a direct call.  The options duration,
\* targetCurve and smoothing are drawn where calibrate first reads them.
Calibrate(caller, useTestSignal) ==
    /\ ~isCalibrating
    /\ runs < MaxRuns
    /\ caller = "app" => ~calibrateBtnDisabled /\ ~useTestSignal
    /\ isCalibrating' = TRUE
    /\ runs' = runs + 1
    /\ call' = [caller |-> caller, useTestSignal |-> useTestSignal]
    /\ calibrateBtnDisabled' =
           IF caller = "app" THEN TRUE ELSE calibrateBtnDisabled
    /\ outcome' = Pending(caller)
    /\ rejection' = ""
    /\ pc' = "mic"
    /\ UNCHANGED << probe, sampleRate, signal, measurementData, liveStreams, loop,
                    gains, sliders, validSeen,
                    capturedIn >>

\* variant: the isCalibrating guard sits inside the try block, so that the
\* finally block runs for the rejected call as well
CalibrateRejectedInsideTry(caller) ==
    /\ isCalibrating
    /\ pc # "process"
    /\ caller = "app" => ~calibrateBtnDisabled
    /\ rejection' = "Calibration already in progress"
    /\ isCalibrating' = FALSE
    /\ UNCHANGED << probe, sampleRate, signal, measurementData, pc,
                    call, runs, liveStreams, loop, outcome, gains, sliders,
                    calibrateBtnDisabled, validSeen, capturedIn >>

\* calibrate(options) while isCalibrating: throws before the try block;
\* startCalibration catches the error and re-enables the button.  No other
\* callback runs between the capture loop's resolve() and calibrate's continuation.
CalibrateRejected(caller) ==
    /\ isCalibrating
    /\ pc # "process"
    /\ caller = "app" => ~calibrateBtnDisabled
    /\ rejection' = "Calibration already in progress"
    /\ UNCHANGED << probe, sampleRate, signal, isCalibrating, measurementData, pc,
                    call, runs, liveStreams, loop, outcome, gains, sliders,
                    calibrateBtnDisabled, validSeen,
                    capturedIn >>

\* getUserMedia resolves with a stream
MicGranted ==
    /\ pc = "mic"
    /\ liveStreams' = liveStreams \cup {runs}
    /\ pc' = "settle"
    /\ rejection' = ""
    /\ UNCHANGED << probe, sampleRate, signal, isCalibrating, measurementData, call,
                    runs, loop, outcome, gains, sliders,
                    calibrateBtnDisabled, validSeen,
                    capturedIn >>

\* getUserMedia rejects with NotAllowedError
MicDenied ==
    /\ pc = "mic"
    /\ Fail("microphone", "Microphone access denied")
    /\ rejection' = ""
    /\ UNCHANGED << probe, sampleRate, signal, measurementData, runs, validSeen,
                    capturedIn >>

\* who appended the entries of measurementData, once a step of run `run`
\* has taken it from `before` to `after`
CapturedAfter(before, after, owners, run) ==
    IF Len(after) = 0 THEN <<>>
    ELSE IF Len(after) = Len(before) + 1 THEN Append(owners, run)
    ELSE owners

\* variant: collectMeasurements is called without the data being cleared
StartLoopKeepsData(f, duration) ==
    LET l0 == NewLoop(duration)
    IN  /\ loop' = MeasureLoop(l0)
        /\ measurementData' = MeasureData(l0, f, measurementData)
        /\ validSeen' = 0
        /\ capturedIn' = CapturedAfter(measurementData, measurementData',
                                       capturedIn, runs)

\* the data cleared, collectMeasurements called: measure() runs once,
\* synchronously, on frame f
StartLoop(f, duration) ==
    LET l0 == NewLoop(duration)
    IN  /\ loop' = MeasureLoop(l0)
        /\ measurementData' = MeasureData(l0, f, <<>>)
        /\ validSeen' = 0
        /\ capturedIn' = CapturedAfter(measurementData, measurementData',
                                       capturedIn, runs)

\* the 1 s timer fires, useTestSignal is false: measureWithMusic
MeasureWithMusic(f, duration) ==
    /\ pc = "settle"
    /\ ~call.useTestSignal
    /\ StartLoop(f, duration)
    /\ pc' = IF loop'.state = "done" THEN "process" ELSE "collect"
    /\ rejection' = ""
    /\ UNCHANGED << probe, sampleRate, signal, isCalibrating, call, runs,
                    liveStreams, outcome, gains, sliders,
                    calibrateBtnDisabled >>

\* the 1 s timer fires, useTestSignal is true, duration is 0 and
\* generatePinkNoise throws: createBuffer refuses a buffer of length 0
TestSignalNotGenerated ==
    /\ pc = "settle"
    /\ call.useTestSignal
    /\ Fail("test-signal", "NotSupportedError")
    /\ rejection' = ""
    /\ UNCHANGED << probe, sampleRate, signal, measurementData, runs, validSeen,
                    capturedIn >>

\* the 1 s timer fires, useTestSignal is true: measureWithTestSignal starts
\* the capture loop, then playTestSignal and awaits its end
MeasureWithTestSignal(f, duration) ==
    /\ pc = "settle"
    /\ call.useTestSignal
    /\ duration > 0
    /\ StartLoop(f, duration)
    /\ pc' = "play"
    /\ rejection' = ""
    /\ UNCHANGED << probe, sampleRate, signal, isCalibrating, call, runs,
                    liveStreams, outcome, gains, sliders,
                    calibrateBtnDisabled >>

\* variant: measureWithTestSignal returns when the playback ends, without
\* awaiting the measurement promise
PlayEndedNoAwait ==
    /\ pc = "play"
    /\ pc' = "process"
    /\ rejection' = ""
    /\ UNCHANGED << probe, sampleRate, signal, isCalibrating, measurementData, call,
                    runs, liveStreams, loop, outcome, gains,
                    sliders, calibrateBtnDisabled, validSeen, capturedIn >>

\* source.onended fires: playTestSignal resolves and measureWithTestSignal
\* goes on to await the measurement promise
PlayEnded ==
    /\ pc = "play"
    /\ pc' = IF loop.state = "done" THEN "process" ELSE "collect"
    /\ rejection' = ""
    /\ UNCHANGED << probe, sampleRate, signal, isCalibrating, measurementData, call,
                    runs, liveStreams, loop, outcome, gains,
                    sliders, calibrateBtnDisabled, validSeen,
                    capturedIn >>

\* Date.now() advances by one tick
Tick ==
    /\ loop.state = "live"
    /\ loop.timeLeft > 0
    /\ loop' = [loop EXCEPT !.timeLeft = @ - 1]
    /\ rejection' = ""
    /\ UNCHANGED << probe, sampleRate, signal, isCalibrating, measurementData, pc,
                    call, runs, liveStreams, outcome, gains,
                    sliders, calibrateBtnDisabled, validSeen,
                    capturedIn >>

\* variant: measure() resolves the promise at each frame and asks for
\* another frame while the time is not up
AnimationFrameResolvesEarly(f) ==
    /\ loop.state = "live"
    /\ \/ loop.frames < FrameCap(signal) - 1
       \/ loop.timeLeft = 0
    /\ loop' = MeasureLoop(loop)
    /\ measurementData' = MeasureData(loop, f, measurementData)
    /\ validSeen' =
           IF loop.frames >= discardCountInit /\ PeakLevel(f) > noiseFloor
           THEN validSeen + 1 ELSE validSeen
    /\ capturedIn' = CapturedAfter(measurementData, measurementData',
                                   capturedIn, runs)
    /\ pc' = IF pc = "collect" THEN "process" ELSE pc
    /\ rejection' = ""
    /\ UNCHANGED << probe, sampleRate, signal, isCalibrating, call, runs,
                    liveStreams, outcome, gains, sliders,
                    calibrateBtnDisabled >>

\* requestAnimationFrame runs measure() on frame f; the last frame the model
\* lets a loop take is one at which the time is up
AnimationFrame(f) ==
    /\ loop.state = "live"
    /\ \/ loop.frames < FrameCap(signal) - 1
       \/ loop.timeLeft = 0
    /\ loop' = MeasureLoop(loop)
    /\ measurementData' = MeasureData(loop, f, measurementData)
    /\ validSeen' =
           IF loop.frames >= discardCountInit /\ PeakLevel(f) > noiseFloor
           THEN validSeen + 1 ELSE validSeen
    /\ capturedIn' = CapturedAfter(measurementData, measurementData',
                                   capturedIn, runs)
    /\ pc' = IF loop'.state = "done" /\ pc = "collect" THEN "process" ELSE pc
    /\ rejection' = ""
    /\ UNCHANGED << probe, sampleRate, signal, isCalibrating, call, runs,
                    liveStreams, outcome, gains, sliders,
                    calibrateBtnDisabled >>

\* calibrate from "Stop microphone" to its finally block, and the caller's
\* continuation
Process(targetCurve, smoothing) ==
    /\ pc = "process"
    /\ LET res == calculateCorrections(measurementData, targetCurve,
                                       smoothing, sampleRate)
       IN  /\ outcome' = [status |-> IF res.ok THEN "resolved" ELSE "rejected",
                          stage |-> "calculate",
                          error |-> res.error,
                          corrections |-> res.corrections,
                          targetCurve |-> targetCurve,
                          smoothing |-> smoothing,
                          data |-> measurementData,
                          warmedUp |-> loop.discardCount = 0,
                          caller |-> call.caller,
                          useTestSignal |-> call.useTestSignal]
           /\ gains' = GainsAfter(call.caller, res, gains)
           /\ sliders' = GainsAfter(call.caller, res, sliders)
    /\ liveStreams' = liveStreams \ {runs}
    /\ Settle
    /\ rejection' = ""
    /\ UNCHANGED << probe, sampleRate, signal, measurementData, runs, validSeen,
                    capturedIn >>

Next ==
    \/ \E caller \in {"app", "api"}, u \in BOOLEAN : Calibrate(caller, u)
    \/ \E caller \in {"app", "api"} : CalibrateRejected(caller)
    \/ MicGranted
    \/ MicDenied
    \/ \E f \in FramesOf(signal), d \in Durations : MeasureWithMusic(f, d)
    \/ TestSignalNotGenerated
    \/ \E f \in FramesOf(signal), d \in Durations :
           MeasureWithTestSignal(f, d)
    \/ PlayEnded
    \/ Tick
    \/ \E f \in FramesOf(signal) : AnimationFrame(f)
    \/ \E t \in RequestedCurves, s \in RequestedSmoothings : Process(t, s)

Spec == Init /\ [][Next]_vars

\* the same program where animation frames keep being delivered to a loop
\* that has asked for one, and the clock advances while a loop waits
FairSpec ==
    /\ Init
    /\ [][Next]_vars
    /\ WF_vars(Tick)
    /\ WF_vars(\E f \in FramesOf(signal) : AnimationFrame(f))

(***************************************************************************)
(* The functions of the pipeline called on their own: the input is chosen  *)
(* initially, one step makes the call.                                     *)
(***************************************************************************)
\* snapshots passed to averageMeasurements
MaxSnapshots == 3

\* snapshots with levels above, on and below the noise floor
AverageFrames ==
    { <<-20000, -20000, -20000>>,
      <<-30000, -60000, -80000>>,
      <<-80000, -100000, -20000>>,
      <<-100000, -100000, -100000>>,
      <<-40000, -20000, -70000>>,
      <<0, -10000, -50000>> }

SpectrumLevels == {-100000, -80000, -60000, -20000}

\* averaged spectra handed to extractFrequencyResponse
Spectra == { <<a, b, c>> : a \in SpectrumLevels, b \in SpectrumLevels,
                           c \in SpectrumLevels }

BandLevels == {-90000, -80000, -50000, -20000}

\* band responses handed to applySmoothing: one band at level a, the others
\* at level b
BandResponses ==
    { [j \in Bands |-> IF j = k THEN a ELSE b] \o <<>> :
          k \in Bands, a \in BandLevels, b \in BandLevels }

\* gain vectors handed to updateEQSliders: too short, of the length of the
\* band grid, too long
GainVectors ==
    { [i \in 1..2 |-> 3000], [i \in Bands |-> -2000], [i \in 1..32 |-> 1000] }

CorrectionLevels == {-10000, -3500, 0, 500, 10000}

\* correction vectors handed to smoothCorrections: entries k and k + 1 at
\* levels a and b, the others at 0; and vectors too short to have an
\* interior entry
CorrectionVectors ==
    { [j \in Bands |-> IF j = k THEN a ELSE IF j = k + 1 THEN b ELSE 0] \o <<>> :
          k \in Bands, a \in CorrectionLevels, b \in CorrectionLevels }
    \cup { <<>>, <<500>>, <<500, -3500>>, <<500, -3500, 10000>> }

\* `after` is the argument as the call leaves it, where the call is one
\* that works on a copy of it
Probe(op, input, arg) ==
    [op |-> op, input |-> input, arg |-> arg, done |-> FALSE, out |-> <<>>,
     after |-> <<>>]

Probes ==
    { Probe("averageMeasurements", data, <<>>) :
          data \in SeqsUpTo(AverageFrames, MaxSnapshots) }
    \cup { Probe("extractFrequencyResponse", fftData,
                 [rate |-> rate, band |-> i]) :
               fftData \in Spectra, rate \in SampleRates, i \in Bands }
    \cup { Probe("applySmoothing", data, t) :
               data \in BandResponses, t \in SmoothingArgs }
    \cup { Probe("normalize", data, <<>>) : data \in BandResponses }
    \cup { Probe("smoothCorrections", v, <<>>) : v \in CorrectionVectors }
    \cup { Probe("updateEQSliders", v, <<>>) : v \in GainVectors }

PipelineInit ==
    /\ sampleRate = 48000
    /\ signal = "music"
    /\ Constructed
    /\ probe \in Probes

Returned(out) == [probe EXCEPT !.done = TRUE, !.out = out]

Idle == UNCHANGED << sampleRate, signal, isCalibrating, measurementData, pc,
                     call, runs, rejection, liveStreams, loop, outcome,
                     calibrateBtnDisabled, validSeen, capturedIn >>

Average ==
    /\ probe.op = "averageMeasurements"
    /\ ~probe.done
    /\ probe' = Returned(averageMeasurements(probe.input) \o <<>>)
    /\ Idle
    /\ UNCHANGED << gains, sliders >>

\* the value extractFrequencyResponse pushes for one band, and the bins it
\* read for it
Extract ==
    /\ probe.op = "extractFrequencyResponse"
    /\ ~probe.done
    /\ LET rate == probe.arg.rate
           i    == probe.arg.band
       IN  probe' = Returned(
               [value |-> extractFrequencyResponse(probe.input, rate)[i],
                bins  |-> WindowBins(frequencies[i], rate)])
    /\ Idle
    /\ UNCHANGED << gains, sliders >>

Smooth ==
    /\ probe.op = "applySmoothing"
    /\ ~probe.done
    /\ probe' = [Returned(applySmoothing(probe.input, probe.arg))
                     EXCEPT !.after =
                         SmoothBands(probe.input, probe.input, probe.arg, 1).argument]
    /\ Idle
    /\ UNCHANGED << gains, sliders >>

\* lines 507-509 of calculateCorrections on a smoothed response
Renormalize ==
    /\ probe.op = "normalize"
    /\ ~probe.done
    /\ probe' = Returned(Normalize(probe.input))
    /\ Idle
    /\ UNCHANGED << gains, sliders >>

SmoothFinal ==
    /\ probe.op = "smoothCorrections"
    /\ ~probe.done
    /\ probe' = [Returned(smoothCorrections(probe.input))
                     EXCEPT !.after =
                         SmoothPass(probe.input, probe.input, 2).argument]
    /\ Idle
    /\ UNCHANGED << gains, sliders >>

\* updateEQSliders(v): every slider whose index v defines, and through
\* setFilterGain the filter of that index
ApplyGains ==
    /\ probe.op = "updateEQSliders"
    /\ ~probe.done
    /\ sliders' = updateEQSliders(sliders, probe.input)
    /\ gains' = updateEQSliders(gains, probe.input)
    /\ probe' = Returned(gains')
    /\ Idle

PipelineNext ==
    \/ Average
    \/ Extract
    \/ Smooth
    \/ Renormalize
    \/ SmoothFinal
    \/ ApplyGains

PipelineSpec == PipelineInit /\ [][PipelineNext]_vars

(***************************************************************************)
(* Properties.                                                             *)
(***************************************************************************)
\* the accepted calibrate call returned a correction vector
Resolved == outcome.status = "resolved"

\* the normalized response calculateCorrections derived for the settled call
OutcomeResponse == NormalizedResponse(outcome.data, outcome.smoothing, sampleRate)

\* C1: for a non-empty session, a target curve the object defines and any
\* smoothing option, calculateCorrections returns a vector of exactly 31
\* entries, one per band of the equaliser in ascending order of frequency.
C1_VectorLength ==
    (/\ outcome.stage = "calculate"
     /\ outcome.data # <<>>
     /\ outcome.targetCurve \in CurveNames)
    => /\ Resolved
       /\ Len(outcome.corrections) = 31
       /\ DOMAIN outcome.corrections = DOMAIN frequencies
       /\ \A i \in 1..30 : frequencies[i] < frequencies[i + 1]

C1_Witness ==
    /\ Resolved
    /\ outcome.targetCurve = "b&k"
    /\ outcome.smoothing = "1/12"
    /\ Len(outcome.data) = 2
    /\ Len(outcome.corrections) = 31

\* C2: every entry of a returned correction vector lies in [-10, +10] dB.
C2_Range ==
    Resolved =>
        \A i \in DOMAIN outcome.corrections :
            /\ outcome.corrections[i] >= -10000
            /\ outcome.corrections[i] <= 10000

C2_Witness ==
    /\ Resolved
    /\ outcome.targetCurve = "harman"
    /\ LET targetCurve == targetCurves("harman")
           response    == OutcomeResponse
       IN  \E i \in Bands : targetCurve[i] - response[i] > 20000

\* C3: every entry of a returned correction vector is a multiple of 0.5 dB.
C3_HalfSteps ==
    Resolved =>
        \A i \in DOMAIN outcome.corrections : outcome.corrections[i] % 500 = 0

C3_Witness ==
    /\ Resolved
    /\ outcome.targetCurve = "harman"
    /\ LET targetCurve == targetCurves("harman")
           response    == OutcomeResponse
       IN  \E i \in Bands : Damp(targetCurve[i] - response[i]) % 500 # 0

\* C4: when the normalized measured response equals the flat target (the
\* same level at all 31 bands, the peak at the reference level, target curve
\* 'flat'), every correction is zero to within one 0.5 dB step.
C4_FlatIdempotence ==
    (/\ Resolved
     /\ outcome.targetCurve = "flat"
     /\ LET response == OutcomeResponse
        IN  \A i \in Bands : response[i] = referenceLevel)
    => \A i \in Bands :
           /\ outcome.corrections[i] >= -500
           /\ outcome.corrections[i] <= 500

\* C5: calibrating against a -20 dB plateau from 100 Hz to 10 kHz over
\* -60 dB elsewhere, 20 retained snapshots, target 'flat', 48 kHz, gives 31
\* corrections that are about zero for the bands within [100 Hz, 10 kHz] and
\* +10 dB for the bands outside.
C5_PlateauScenario ==
    (/\ Resolved
     /\ signal = "plateau"
     /\ sampleRate = 48000
     /\ outcome.targetCurve = "flat"
     /\ outcome.data = [k \in 1..20 |-> PlateauFrame])
    => /\ Len(outcome.corrections) = 31
       /\ \A i \in Bands :
              IF frequencies[i] >= 1000 /\ frequencies[i] <= 100000
              THEN /\ outcome.corrections[i] >= -500
                   /\ outcome.corrections[i] <= 500
              ELSE outcome.corrections[i] = 10000

\* C6: a band whose target exceeds its normalized response by a very large
\* amount (60 dB or more) gets exactly +10 dB, and no entry of the vector is
\* above +10 dB.
C6_ClampBoundary ==
    Resolved =>
        LET targetCurve == targetCurves(outcome.targetCurve)
            response    == OutcomeResponse
        IN  \A i \in Bands :
                /\ outcome.corrections[i] <= 10000
                /\ targetCurve[i] - response[i] >= 60000
                   => outcome.corrections[i] = 10000

C6_Witness ==
    /\ Resolved
    /\ LET targetCurve == targetCurves(outcome.targetCurve)
           response    == OutcomeResponse
       IN  \E i \in Bands :
               /\ targetCurve[i] - response[i] >= 60000
               /\ outcome.corrections[i] = 10000

\* C7: when the session holds no snapshot (every frame was discarded as
\* warm-up or as below the noise floor), calculateCorrections raises the
\* error 'No valid measurement data collected' and returns no vector.
C7_EmptySession ==
    (outcome.stage = "calculate" /\ outcome.data = <<>>)
    => /\ outcome.status = "rejected"
       /\ outcome.error = "No valid measurement data collected"
       /\ outcome.corrections = <<>>

C7_Witness ==
    /\ outcome.stage = "calculate"
    /\ outcome.data = <<>>
    /\ outcome.warmedUp
    /\ outcome.status = "rejected"

\* C8: a calibration that fails rejects without returning a vector and
\* leaves the gains and the sliders as they were; the gains change only in
\* the step that resolves a calibration, and then to its complete 31-entry
\* vector.
C8_FailClosed ==
    [][ /\ (outcome.status = "pending" /\ outcome'.status = "rejected")
           => /\ outcome'.corrections = <<>>
              /\ gains' = gains
              /\ sliders' = sliders
        /\ (gains' # gains \/ sliders' # sliders)
           => /\ outcome.status = "pending"
              /\ outcome'.status = "resolved"
              /\ Len(outcome'.corrections) = 31
              /\ gains' = outcome'.corrections
              /\ sliders' = outcome'.corrections ]_vars

C8_Witness ==
    /\ outcome.status = "rejected"
    /\ outcome.stage = "calculate"
    /\ outcome.caller = "app"
    /\ runs = 2
    /\ gains # FlatGains

\* C9: a frame whose peak does not exceed the noise floor is never appended
\* and neither raises an error nor ends the loop; the retained snapshots are
\* as many as the frames after the warm-up that peaked above the floor.
C9_NoiseFrames ==
    /\ Len(measurementData) = validSeen
    /\ \A k \in DOMAIN measurementData :
           PeakLevel(measurementData[k]) > noiseFloor
    /\ loop.state = "done" => loop.timeLeft = 0
    /\ loop.state = "live" => outcome.status = "pending"

\* the eleventh frame did not exceed the floor and the loop goes on
C9_Witness ==
    /\ loop.state = "live"
    /\ loop.frames = discardCountInit + 1
    /\ validSeen = 0
    /\ measurementData = <<>>
    /\ outcome.status = "pending"

\* C10: the first 10 frames of every capture loop are discarded whatever
\* their level, and the discard counter starts again at 10 for each loop.
C10_WarmUp ==
    loop.state # "none" =>
        /\ loop.discardCount = Max2(0, discardCountInit - loop.frames)
        /\ loop.frames <= discardCountInit => measurementData = <<>>
        /\ Len(measurementData) <= Max2(0, loop.frames - discardCountInit)

C10_Witness ==
    /\ runs = 2
    /\ loop.frames = discardCountInit + 1
    /\ Len(measurementData) = 1
    /\ outcome.status = "pending"

\* C11: a returned correction vector is computed only from snapshots that
\* the capture loop of the same run appended; measurementData is emptied
\* before a run captures its first frame, whatever the earlier runs left.
C11_SessionIsolation ==
    /\ Len(capturedIn) = Len(measurementData)
    /\ loop.state # "none" =>
           \A k \in DOMAIN capturedIn : capturedIn[k] = runs
    /\ (Resolved /\ pc = "idle") =>
           /\ outcome.data = measurementData
           /\ \A k \in DOMAIN capturedIn : capturedIn[k] = runs

\* the second run resolved from its own two snapshots
C11_Witness ==
    /\ runs = 2
    /\ Resolved
    /\ pc = "idle"
    /\ Len(outcome.data) = 2
    /\ capturedIn = <<2, 2>>

\* C12: a calibrate call made while an earlier one has not settled is
\* rejected with 'Calibration already in progress' and changes nothing of
\* the run in progress: measurementData, the isCalibrating flag, the loop;
\* a call is accepted only when no call is pending.
C12_SingleSession ==
    [][ /\ rejection' = "Calibration already in progress"
           => /\ isCalibrating /\ isCalibrating'
              /\ measurementData' = measurementData
              /\ loop' = loop
              /\ outcome' = outcome
              /\ runs' = runs
        /\ runs' # runs
           => /\ ~isCalibrating
              /\ outcome.status # "pending"
              /\ loop.state = "none" ]_vars

C12_Witness ==
    /\ rejection = "Calibration already in progress"
    /\ isCalibrating
    /\ loop.state = "live"
    /\ measurementData # <<>>
    /\ outcome.status = "pending"

\* C13: in both modes calculateCorrections runs only after the capture
\* loop of the run has resolved, on the data as the loop left it, and
\* measurementData changes only while a call is pending and its loop is
\* being started or is live.
C13_CollectBeforeAverage ==
    [][ /\ (outcome.status = "pending" /\ outcome'.stage = "calculate")
           => /\ loop.state = "done"
              /\ outcome'.data = measurementData
              /\ measurementData' = measurementData
        /\ measurementData' # measurementData
           => /\ outcome'.status = "pending"
              /\ loop'.state \in {"live", "done"} ]_vars

\* a test-signal run resolved from what its loop retained
C13_Witness ==
    /\ Resolved
    /\ outcome.useTestSignal
    /\ Len(outcome.data) = 2
    /\ outcome.data = measurementData

\* C14: with an unknown target curve, or with 'custom' when no custom
\* vector has been supplied (none ever is), the calculation fails instead of
\* producing a correction vector.
C14_InvalidCurve ==
    (/\ outcome.stage = "calculate"
     /\ outcome.data # <<>>
     /\ outcome.targetCurve \notin {"flat", "harman", "b&k"})
    => /\ outcome.status = "rejected"
       /\ outcome.corrections = <<>>

\* C16: once a calibrate call has settled, on any path, the tracks of every
\* microphone stream it acquired have been stopped.
C16_MicrophoneReleased ==
    outcome.status \in {"resolved", "rejected"} => liveStreams = {}

\* the call the probe describes has been made
Called(op) == probe.op = op /\ probe.done

\* C15: a gain vector whose length is not 31 is never processed or partly
\* applied by updateEQSliders and setFilterGain: gains and sliders stay as
\* they were.
C15_ShapeMismatch ==
    (Called("updateEQSliders") /\ Len(probe.input) # 31)
    => /\ gains = FlatGains
       /\ sliders = FlatGains

\* C17: averaging snapshots that all have the same level L above the noise
\* floor at a bin yields L at that bin; averaging two different valid
\* levels yields a value strictly between them, closer to the louder one.
C17_PowerAverage ==
    Called("averageMeasurements") =>
        LET data == probe.input
            out  == probe.out
        IN  \A r \in Regions :
                /\ (/\ data[1][r] > noiseFloor
                    /\ \A k \in DOMAIN data : data[k][r] = data[1][r])
                   => out[r] = data[1][r]
                /\ (/\ Len(data) = 2
                    /\ data[1][r] > noiseFloor
                    /\ data[2][r] > noiseFloor
                    /\ data[1][r] # data[2][r])
                   => LET lo == Min2(data[1][r], data[2][r])
                          hi == Max2(data[1][r], data[2][r])
                      IN  /\ lo < out[r]
                          /\ out[r] < hi
                          /\ 2 * out[r] > lo + hi

\* two snapshots, equal at -20 dB in one region and 20 dB apart in another
C17_Witness ==
    /\ Called("averageMeasurements")
    /\ probe.input = << <<-20000, -20000, -20000>>, <<-40000, -20000, -70000>> >>
    /\ probe.out[2] = -20000
    /\ probe.out[1] > -30000

\* C18: per bin, only the values strictly above the noise floor count; the
\* power sum is divided by the number of those values, so that snapshots
\* without a valid value at the bin do not change the result; the result is
\* exactly the noise floor when no snapshot has a valid value there; the
\* output has as many bins as the first snapshot.
C18_ValidCount ==
    Called("averageMeasurements") =>
        LET data == probe.input
            out  == probe.out
        IN  /\ Len(out) = Len(data[1])
            /\ \A r \in Regions :
                   LET V     == { k \in DOMAIN data : data[k][r] > noiseFloor }
                       valid == SelectSeq(data, LAMBDA m : m[r] > noiseFloor)
                   IN  /\ V = {} => out[r] = noiseFloor
                       /\ V # {} =>
                              /\ \E k \in V : out[r] <= data[k][r]
                              /\ \E k \in V : out[r] >= data[k][r]
                              /\ out[r] > noiseFloor
                              /\ out[r] = averageMeasurements(valid)[r]
                       /\ (V # {} /\ \A j, k \in V : data[j][r] = data[k][r])
                          => \A k \in V : out[r] = data[k][r]

\* three snapshots: two regions where no value exceeds the floor (one of
\* them with values exactly on it), and a region where two of the three do
C18_Witness ==
    /\ Called("averageMeasurements")
    /\ probe.input = << <<-80000, -100000, -20000>>,
                        <<-100000, -100000, -100000>>,
                        <<-80000, -100000, -20000>> >>
    /\ probe.out = <<noiseFloor, noiseFloor, -20000>>

\* per sample rate and band, the bins b of the spectrum with
\* floor(c - 1) <= b <= ceil(c + 1), c = freq / binWidth, i.e.
\* c < b + 2 and c > b - 2
ExpectedBins ==
    [rate \in SampleRates |->
        [i \in Bands |->
            { b \in 0..(frequencyBinCount - 1) :
                  /\ frequencies[i] * fftSize < (b + 2) * 10 * rate
                  /\ frequencies[i] * fftSize > (b - 2) * 10 * rate }]]

\* C19: for each band extractFrequencyResponse reads exactly the bins with
\* index in [floor(c-1), ceil(c+1)] that lie inside the spectrum, averages
\* those strictly above the noise floor, and yields exactly the noise floor
\* when there is none, also for a band whose center lies beyond the last bin.
C19_BandWindow ==
    Called("extractFrequencyResponse") =>
        LET fftData == probe.input
            rate    == probe.arg.rate
            bins    == ExpectedBins[rate][probe.arg.band]
            n       == [r \in Regions |->
                           IF fftData[r] > noiseFloor
                           THEN Cardinality({ b \in bins : RegionOfBin(b, rate) = r })
                           ELSE 0]
            count   == n[1] + n[2] + n[3]
            sum     == n[1] * fftData[1] + n[2] * fftData[2] + n[3] * fftData[3]
        IN  /\ probe.out.bins = bins
            /\ \A b \in probe.out.bins : b >= 0 /\ b < frequencyBinCount
            /\ probe.out.value =
                   IF count = 0 THEN noiseFloor ELSE sum \div count

\* at 32 kHz the 20 kHz band lies beyond the last bin: nothing is read
C19_Witness ==
    /\ Called("extractFrequencyResponse")
    /\ probe.arg = [rate |-> 32000, band |-> 31]
    /\ probe.input = <<-20000, -20000, -20000>>
    /\ probe.out.bins = {}
    /\ probe.out.value = noiseFloor

RECURSIVE SumOfBands(_, _)
\* the sum of data[j] over the bands j of V
SumOfBands(data, V) ==
    IF V = {} THEN 0
    ELSE LET j == CHOOSE k \in V : TRUE
         IN  data[j] + SumOfBands(data, V \ {j})

\* what smoothing yields for band i when its window reaches up to
\* `octaves` times centerFreq * 2^(fraction / 2)
WindowMean(data, smoothingType, i, octaves) ==
    LET f  == frequencies[i]
        w  == HalfWindow(smoothingType)
        In == { j \in Bands : /\ frequencies[j] * w >= f * 1000
                              /\ frequencies[j] * 1000 <= octaves * f * w }
        V  == { j \in In : data[j] > noiseFloor }
    IN  IF V = {} THEN data[i] ELSE SumOfBands(data, V) \div Cardinality(V)

\* C20 as stated: smoothing of band i averages the valid values of the
\* bands with center frequency in [f * 2^(-fraction/2), f * 2 * 2^(fraction/2)].
C20_WindowAsStated ==
    Called("applySmoothing") =>
        \A i \in Bands :
            probe.out[i] = WindowMean(probe.input, probe.arg, i, 2)

\* C20, amended: smoothing of band i averages the valid values of the bands
\* with center frequency in [f * 2^(-fraction/2), f * 2^(fraction/2)], band i
\* included and values at or below the noise floor excluded; a band with no
\* valid value in its window keeps its value.
C20_SymmetricWindow ==
    Called("applySmoothing") =>
        /\ Len(probe.out) = Len(probe.input)
        /\ \A i \in Bands :
               probe.out[i] = WindowMean(probe.input, probe.arg, i, 1)

\* a band below the noise floor next to valid bands keeps its value
C20_Witness ==
    /\ Called("applySmoothing")
    /\ probe.arg = "1/3"
    /\ probe.input[10] = -90000
    /\ probe.input[11] = -20000
    /\ probe.out[10] = -90000
    /\ probe.out[11] = -20000

\* C21: applySmoothing called with a smoothing value other than 1/3, 1/6
\* and 1/12 (undefined, any other string) raises no error and returns what
\* it returns for 1/3.
C21_UnknownSmoothing ==
    (Called("applySmoothing") /\ probe.arg \notin SmoothingTypes)
    => /\ Len(probe.out) = Len(probe.input)
       /\ probe.out = applySmoothing(probe.input, "1/3")

\* undefined smoothing, a valid band between bands of another valid level
C21_Witness ==
    /\ Called("applySmoothing")
    /\ probe.arg = "undefined"
    /\ probe.input[10] = -20000
    /\ probe.input[11] = -50000
    /\ probe.out[10] = -20000
    /\ probe.out[11] = -50000

\* C22: applySmoothing and smoothCorrections return a vector of the length
\* of their argument, and the argument holds after the call the values it
\* held before.
C22_ArgumentUntouched ==
    (Called("applySmoothing") \/ Called("smoothCorrections"))
    => /\ probe.after = probe.input
       /\ Len(probe.out) = Len(probe.input)

\* smoothCorrections has changed an interior entry in its result
C22_Witness ==
    /\ Called("smoothCorrections")
    /\ Len(probe.input) = 31
    /\ probe.out # probe.input
    /\ probe.after = probe.input

\* C23: normalisation shifts every band by the same amount: every value is
\* at most the reference level, one of them equals it, and the differences
\* between bands are those of the input.
C23_Normalization ==
    Called("normalize") =>
        LET before == probe.input
            after  == probe.out
        IN  /\ Len(after) = Len(before)
            /\ \A i \in Bands : after[i] <= referenceLevel
            /\ \E i \in Bands : after[i] = referenceLevel
            /\ \A i, j \in Bands : after[i] - after[j] = before[i] - before[j]

\* one band 30 dB above the others, all below the reference level
C23_Witness ==
    /\ Called("normalize")
    /\ probe.input[5] = -50000
    /\ probe.input[6] = -80000
    /\ probe.out[5] = referenceLevel
    /\ probe.out[6] = -50000

\* C24: the final smoothing leaves the first and the last entry as they
\* were, and sets every interior entry i to the mean of the entries i-1, i
\* and i+1 of its argument, rounded to the nearest 0.5 dB.
C24_NeighbourMean ==
    (Called("smoothCorrections") /\ Len(probe.input) > 0) =>
        LET c == probe.input
            r == probe.out
            n == Len(c)
        IN  /\ Len(r) = n
            /\ r[1] = c[1]
            /\ r[n] = c[n]
            /\ \A i \in 2..(n - 1) :
                   LET sum3 == c[i - 1] + c[i] + c[i + 1]
                   IN  /\ r[i] % 500 = 0
                       /\ 2 * (3 * r[i] - sum3) <= 1500
                       /\ 2 * (sum3 - 3 * r[i]) < 1500

\* two adjacent entries that differ: the entries around them take rounded
\* means of input values
C24_Witness ==
    /\ Called("smoothCorrections")
    /\ Len(probe.input) = 31
    /\ probe.input[1] = 10000
    /\ probe.input[2] = -3500
    /\ probe.input[3] = 0
    /\ probe.out[1] = 10000
    /\ probe.out[2] = 2000
    /\ probe.out[3] = -1000

\* C27: for 1/3, 1/6 and 1/12 octave the window of band i holds no band
\* other than i, and applySmoothing returns a vector equal to its input.
C27_SmoothingIsIdentity ==
    /\ \A t \in SmoothingTypes, i \in Bands : SmoothingWindows[t][i] = <<i>>
    /\ (Called("applySmoothing") /\ probe.arg \in SmoothingTypes)
       => probe.out = probe.input

\* 1/3 octave, the widest window, on the closest pair of bands (1 kHz and
\* 1.25 kHz) with different valid levels
C27_Witness ==
    /\ Called("applySmoothing")
    /\ probe.arg = "1/3"
    /\ probe.input[18] = -20000
    /\ probe.input[19] = -50000
    /\ probe.out[18] = -20000
    /\ probe.out[19] = -50000

\* for every curve and band, what lines 512-527 yield for a band at the
\* reference level, the highest level a normalized band can have
CorrectionAtReference ==
    [name \in CurveNames |->
        [i \in Bands |->
            RoundHalf(Clamp(Damp(targetCurves(name)[i] - referenceLevel)))]]

\* C25: a retained snapshot is a copy of the capture buffer as its frame
\* left it: the frames that overwrite the buffer later, and the averaging
\* step, leave the retained snapshots as they were.
C25_SnapshotsAreCopies ==
    [][ /\ \/ measurementData' = <<>>
           \/ /\ Len(measurementData') >= Len(measurementData)
              /\ SubSeq(measurementData', 1, Len(measurementData))
                     = measurementData
        /\ Len(measurementData') > Len(measurementData)
           => /\ Len(measurementData') = Len(measurementData) + 1
              /\ measurementData'[Len(measurementData')] \in FramesOf(signal)
              /\ loop'.frames > discardCountInit
        /\ outcome'.stage = "calculate" /\ outcome.status = "pending"
           => /\ measurementData' = measurementData
              /\ outcome'.data = measurementData ]_vars

\* two retained snapshots of different frames, the run resolved from them
C25_Witness ==
    /\ Resolved
    /\ Len(measurementData) = 2
    /\ measurementData[1] # measurementData[2]
    /\ outcome.data = measurementData
    /\ loop = NoLoop

\* C26: for each of the curves 'flat', 'harman', 'b&k', 'custom' and every
\* non-empty session, every entry of the vector calculateCorrections returns
\* is +10 dB, whatever the measured response: no entry is zero or negative.
C26_AlwaysFullBoost ==
    /\ \A name \in CurveNames, i \in Bands :
           CorrectionAtReference[name][i] = 10000
    /\ (/\ outcome.stage = "calculate"
        /\ outcome.data # <<>>
        /\ outcome.targetCurve \in CurveNames)
       => /\ Resolved
          /\ Len(outcome.corrections) = 31
          /\ \A i \in Bands : outcome.corrections[i] = 10000

\* the band at the peak of the response, which the flat target matches in
\* shape, is boosted by 10 dB as well
C26_Witness ==
    /\ Resolved
    /\ outcome.targetCurve = "flat"
    /\ signal = "plateau"
    /\ LET response == OutcomeResponse
       IN  \E i \in Bands : /\ response[i] = referenceLevel
                             /\ outcome.corrections[i] = 10000

\* C28: isCalibrating is true exactly from the accepted entry of a calibrate
\* call until the call settles; once it has resolved or rejected, at
\* whatever step, the flag is false, the button is enabled and a following
\* calibrate call is accepted.
C28_FlagLifecycle ==
    /\ isCalibrating <=> outcome.status = "pending"
    /\ isCalibrating <=> pc # "idle"
    /\ calibrateBtnDisabled => (isCalibrating /\ call.caller = "app")
    /\ (outcome.status \in {"resolved", "rejected"} /\ runs < MaxRuns)
       => /\ ENABLED Calibrate("app", FALSE)
          /\ ENABLED Calibrate("api", TRUE)

\* a calibration started from the button has failed on an empty measurement
C28_Witness ==
    /\ outcome.status = "rejected"
    /\ outcome.stage = "calculate"
    /\ outcome.caller = "app"
    /\ outcome.data = <<>>
    /\ ~isCalibrating
    /\ ~calibrateBtnDisabled
    /\ runs < MaxRuns

\* C29: once a calibrate call has settled no capture loop is scheduled, so
\* that no frame callback of an earlier run appends to measurementData; a
\* loop is live only under the pending call that started it, and a call
\* starts its loop only when none is live.
C29_NoLoopAfterSettle ==
    /\ loop.state = "live" => /\ isCalibrating
                              /\ outcome.status = "pending"
                              /\ pc \in {"collect", "play"}
    /\ outcome.status # "pending" => loop.state = "none"
    /\ pc \in {"mic", "settle"} => loop.state = "none"
    /\ loop.state # "none" =>
           \A k \in DOMAIN capturedIn : capturedIn[k] = runs

\* a test-signal run, the second run, has settled with data of its own
C29_Witness ==
    /\ Resolved
    /\ runs = 2
    /\ outcome.useTestSignal
    /\ measurementData # <<>>
    /\ capturedIn = [k \in DOMAIN measurementData |-> 2]
    /\ loop = NoLoop

\* C30: with animation frames delivered and the clock advancing, the
\* capture loop resolves; it has run measure() at least once, it resolves at
\* the first frame at which the elapsed time has reached the duration and
\* takes no frame after that, and a frame appends at most one snapshot.
C30_LoopTerminates ==
    /\ [](loop.state # "none" => loop.frames >= 1)
    /\ [][ /\ (loop'.frames # loop.frames /\ loop'.state # "none")
               => (loop'.state = "done" <=> loop'.timeLeft = 0)
           /\ loop.state = "done" => (loop' = loop \/ loop' = NoLoop)
           /\ Len(measurementData') <= Len(measurementData) + 1 ]_vars
    /\ (loop.state = "live" ~> loop.state = "done")

\* a loop has resolved after warm-up frames and retained frames, the time
\* having run out while it was live
C30_Witness ==
    /\ loop.state = "done"
    /\ loop.timeLeft = 0
    /\ loop.frames > discardCountInit + 1
    /\ Len(measurementData) >= 1

====
